---- MODULE Spec2Model ----
(***************************************************************************)
(* A* pathfinding visualisation: the Window (grid, obstacles, start, end,  *)
(* drawn path, buttons) of window.py and the search of pathfinding.py      *)
(* (Node records, the heapq-backed Heap, a_star, h_score, construct_path). *)
(*                                                                         *)
(* Scores are Python floats in the source.  g_score is a step count or     *)
(* math.inf; f_score is g + sqrt(n) with n = dx^2 + dy^2.  A finite        *)
(* f_score is kept exactly as the pair <<g, n>>, normalised so that a      *)
(* perfect square n = r^2 is folded into g (<<g + r, 0>>): two floats of   *)
(* this shape are equal exactly when their normal forms are, and FLess     *)
(* orders them by integer arithmetic as the floats are ordered.            *)
(***************************************************************************)
EXTENDS Integers, Sequences, FiniteSets, TLC

(***************************************************************************)
(* Program constants.                                                      *)
(***************************************************************************)
\* Window.cell_width, Window.cell_height (pixels).
cell_width == 25
cell_height == 25

\* pathfinding.ADJACENT_COST.
ADJACENT_COST == 1

\* math.inf, the default g_score and f_score of a Node.
Inf == -1

\* Optional[Cell_ID]: the None of __start, __end and came_from.
None == -2

\* Colours (window.Colours).
OBSTACLE == "grey"
START == "cyan"
END == "magenta"
PATH == "green"

Colours == {OBSTACLE, START, END, PATH}

(***************************************************************************)
(* Bounds of the model.                                                    *)
(***************************************************************************)
\* a_star invocations per behaviour on the smallest grid (the default list
\* of Heap.__init__ grows with every invocation that returns a path).
MaxRuns == 3

\* Largest window width and height (pixels) of the coordinate specification.
MaxWidth == 60
MaxHeight == 80

VARIABLES
    width,          \* Window.width (pixels)
    height,         \* Window.height (pixels)
    colour,         \* Window.__colour
    cells,          \* Window.__cells: Cell_ID -> colour of the drawn cell
    start,          \* Window.__start
    end,            \* Window.__end
    shortest_path,  \* Window.__shortest_path (its keys; every cell is PATH coloured)
    buttons,        \* state of the non-clear buttons: "normal" or "disabled"
    dialog,         \* the messagebox on screen: "none", "error", "info"
    heap_default,   \* the list object that is the default of Heap.__init__'s data;
                    \* a_star's local heap wraps this very list (self.__data = data)
    nodes,          \* a_star's local list cells: Cell_ID -> Node
    top,            \* a_star's local top
    current_id,     \* a_star's local current_id
    pc,             \* position of the running invocation
    caller,         \* who invoked a_star: "ui" (the button callback) or "direct"
    result,         \* what the last finished a_star gave: a path, or AssertionError
    runs,           \* number of a_star invocations so far
    prev_result     \* what a_star gave on this same grid/start/end last time, or NoResult

vars == <<width, height, colour, cells, start, end, shortest_path, buttons, dialog,
          heap_default, nodes, top, current_id, pc, caller, result, runs,
          prev_result>>

windowVars == <<width, height, colour, cells, start, end, shortest_path, buttons, dialog>>
searchVars == <<nodes, top, current_id>>

\* What an a_star call gives: a returned list, or a raised AssertionError.
Returned(path) == [kind |-> "returned", path |-> path]
AssertionError == [kind |-> "AssertionError", path |-> <<>>]
\* The while loop of construct_path never reaches start.
Diverges == [kind |-> "diverges", path |-> <<>>]
\* heap.pop() on an empty list.
IndexError == [kind |-> "IndexError", path |-> <<>>]
NoResult == [kind |-> "none", path |-> <<>>]

\* An empty dict.
EmptyDict == [i \in {} |-> OBSTACLE]

\* d[k] = v, and del d[k].
DictSet(d, k, v) == [i \in (DOMAIN d) \cup {k} |-> IF i = k THEN v ELSE d[i]]
DictDel(d, k) == [i \in (DOMAIN d) \ {k} |-> d[i]]

(***************************************************************************)
(* Window: coordinates and cell ids.                                       *)
(***************************************************************************)
Cols == width \div cell_width
Rows == height \div cell_height

\* Window.get_num_cells
get_num_cells == (width \div cell_width) * (height \div cell_height)

CellIds == 0 .. (get_num_cells - 1)

\* Window.cell_to_cell_id: x + (y * width // cell_width)
cell_to_cell_id(cell_coords) ==
    cell_coords[1] + ((cell_coords[2] * width) \div cell_width)

\* Window.cell_id_to_cell
cell_id_to_cell(cell_id) ==
    <<cell_id % (width \div cell_width), cell_id \div (width \div cell_width)>>

\* Window.abs_to_cell
abs_to_cell(abs_coords) ==
    <<abs_coords[1] \div cell_width, abs_coords[2] \div cell_height>>

\* Window.abs_to_cell_id
abs_to_cell_id(abs_coords) == cell_to_cell_id(abs_to_cell(abs_coords))

\* out_of_bounds with the upper limits off by one.
out_of_bounds_off_by_one(cell_coords) ==
    \/ cell_coords[1] < 0
    \/ cell_coords[2] < 0
    \/ cell_coords[1] > (width \div cell_width)
    \/ cell_coords[2] > (height \div cell_height)

\* Window.out_of_bounds
out_of_bounds(cell_coords) ==
    \/ cell_coords[1] < 0
    \/ cell_coords[2] < 0
    \/ cell_coords[1] > (width \div cell_width) - 1
    \/ cell_coords[2] > (height \div cell_height) - 1

\* Window.cell_exists
cell_exists(cell_id) == cell_id \in DOMAIN cells

\* Window.obstacle_exists
obstacle_exists(cell_id) ==
    cell_id \in DOMAIN cells /\ cells[cell_id] = OBSTACLE

\* get_neighbours without the obstacle test.
get_neighbours_through_obstacles(cell_id) ==
    LET cell == cell_id_to_cell(cell_id)
        north == <<cell[1], cell[2] - 1>>
        east == <<cell[1] + 1, cell[2]>>
        south == <<cell[1], cell[2] + 1>>
        west == <<cell[1] - 1, cell[2]>>
        Keep(coords) == ~out_of_bounds(coords)
        kept == SelectSeq(<<north, east, south, west>>, Keep)
    IN  [i \in 1 .. Len(kept) |-> cell_to_cell_id(kept[i])]

\* Window.get_neighbours: N, E, S, W, kept when in bounds and not an obstacle.
get_neighbours(cell_id) ==
    LET cell == cell_id_to_cell(cell_id)
        north == <<cell[1], cell[2] - 1>>
        east == <<cell[1] + 1, cell[2]>>
        south == <<cell[1], cell[2] + 1>>
        west == <<cell[1] - 1, cell[2]>>
        Keep(coords) == ~out_of_bounds(coords)
                        /\ ~obstacle_exists(cell_to_cell_id(coords))
        kept == SelectSeq(<<north, east, south, west>>, Keep)
    IN  [i \in 1 .. Len(kept) |-> cell_to_cell_id(kept[i])]

(***************************************************************************)
(* Scores.                                                                 *)
(***************************************************************************)
\* The integer square root, and whether n is a perfect square.
Isqrt(n) == CHOOSE r \in 0 .. n : r * r <= n /\ (r + 1) * (r + 1) > n
IsSquare(n) == Isqrt(n) * Isqrt(n) = n

\* The float g + sqrt(n) in normal form.
FNorm(g, n) == IF IsSquare(n) THEN <<g + Isqrt(n), 0>> ELSE <<g, n>>

\* math.inf as an f_score.
FInf == <<Inf, 0>>

\* a_star's local top before the first pop.
NoTop == <<FInf, None>>

\* a < b for two floats g + sqrt(n), math.inf included.
FLess(a, b) ==
    IF a = FInf THEN FALSE
    ELSE IF b = FInf THEN TRUE
    ELSE LET d == b[1] - a[1]
         IN  IF d = 0 THEN a[2] < b[2]
             ELSE IF d > 0
                  THEN LET e == a[2] - d * d - b[2]
                       IN  e < 0 \/ e * e < 4 * d * d * b[2]
                  ELSE LET k == 0 - d
                           e == b[2] - k * k - a[2]
                       IN  e > 0 /\ e * e > 4 * k * k * a[2]

\* a < b for two g_scores (a step count or math.inf).
GLess(a, b) == a # Inf /\ (b = Inf \/ a < b)

\* g + c for a g_score (math.inf + c is math.inf).
GAdd(g, c) == IF g = Inf THEN Inf ELSE g + c

\* g + h for a g_score and a heuristic value.
FAdd(g, h) == IF g = Inf THEN FInf ELSE FNorm(g + h[1], h[2])

\* pathfinding.h_score: the euclidian distance of two cells.
h_score(cell1, cell2) ==
    LET c1_coords == cell_id_to_cell(cell1)
        c2_coords == cell_id_to_cell(cell2)
        dx == c1_coords[1] - c2_coords[1]
        dy == c1_coords[2] - c2_coords[2]
    IN  FNorm(0, dx * dx + dy * dy)

(***************************************************************************)
(* Node and Heap.                                                          *)
(***************************************************************************)
\* Node.__init__
Node == [came_from |-> None, g_score |-> Inf, f_score |-> FInf, visited |-> FALSE]

\* Comparison of two heap entries by f_score alone.
EntryLess_f_score_only(a, b) == FLess(a[1], b[1])

\* Tuple comparison of two heap entries (f_score, cell id).
EntryLess(a, b) == FLess(a[1], b[1]) \/ (a[1] = b[1] /\ a[2] < b[2])

\* heapq._siftdown (positions count from 0, as in the list).
RECURSIVE SiftdownLoop(_, _, _, _)
SiftdownLoop(h, startpos, pos, newitem) ==
    IF pos > startpos
    THEN LET parentpos == (pos - 1) \div 2
             parent == h[parentpos + 1]
         IN  IF EntryLess(newitem, parent)
             THEN SiftdownLoop([h EXCEPT ![pos + 1] = parent], startpos, parentpos, newitem)
             ELSE [h EXCEPT ![pos + 1] = newitem]
    ELSE [h EXCEPT ![pos + 1] = newitem]

siftdown(h, startpos, pos) == SiftdownLoop(h, startpos, pos, h[pos + 1])

\* heapq._siftup: the smaller child moves up until a leaf, then _siftdown.
RECURSIVE SiftupLoop(_, _, _, _)
SiftupLoop(h, pos, childpos, newitem) ==
    IF childpos < Len(h)
    THEN LET rightpos == childpos + 1
             c == IF rightpos < Len(h) /\ ~EntryLess(h[childpos + 1], h[rightpos + 1])
                  THEN rightpos ELSE childpos
         IN  SiftupLoop([h EXCEPT ![pos + 1] = h[c + 1]], c, 2 * c + 1, newitem)
    ELSE <<[h EXCEPT ![pos + 1] = newitem], pos>>

siftup(h, pos) ==
    LET r == SiftupLoop(h, pos, 2 * pos + 1, h[pos + 1])
    IN  siftdown(r[1], pos, r[2])

\* heapq.heapify
RECURSIVE HeapifyFrom(_, _)
HeapifyFrom(x, i) == IF i < 0 THEN x ELSE HeapifyFrom(siftup(x, i), i - 1)

heapify(x) == HeapifyFrom(x, (Len(x) \div 2) - 1)

\* Heap.__init__ called as Heap(): data is the default list object itself, which
\* every Heap() shares, so the new heap holds what the list held before.
Heap_init(data) == heapify(data)

\* Heap.push (heapq.heappush)
push(h, item) == siftdown(Append(h, item), 0, Len(h))

\* The list's own pop (its last item) instead of heapq.heappop.
pop_last(h) == <<h[Len(h)], SubSeq(h, 1, Len(h) - 1)>>

\* Heap.pop (heapq.heappop): <<the popped item, the list afterwards>>
pop(h) ==
    LET lastelt == h[Len(h)]
        rest == SubSeq(h, 1, Len(h) - 1)
    IN  IF rest # <<>>
        THEN <<rest[1], siftup([rest EXCEPT ![1] = lastelt], 0)>>
        ELSE <<lastelt, rest>>

\* Heap.empty
empty(h) == h = <<>>

(***************************************************************************)
(* pathfinding.a_star, one action per step.                                *)
(*   "entry"  lines 62-69   "init"  lines 72-74   "loop"  line 76          *)
(*   "pop"    lines 81-85   "expand" lines 88-104                          *)
(*   "returned" / "raised": the call is over, its locals are gone.         *)
(***************************************************************************)
\* The call is over: a_star's locals are discarded.
Finish(res) ==
    /\ result' = res
    /\ pc' = IF res.kind = "returned" THEN "returned" ELSE "raised"
    /\ nodes' = <<>>
    /\ top' = NoTop
    /\ current_id' = None

\* Lines 62-69: the two assertions, the Node list, Heap().
AStarEntry ==
    /\ pc = "entry"
    /\ IF start = None \/ end = None
       THEN /\ Finish(AssertionError)
            /\ UNCHANGED heap_default
       ELSE /\ nodes' = [i \in 0 .. (get_num_cells - 1) |-> Node]
            /\ heap_default' = Heap_init(heap_default)
            /\ pc' = "init"
            /\ UNCHANGED <<top, current_id, result>>
    /\ UNCHANGED <<windowVars, caller, runs, prev_result>>

\* Lines 72-74: the start cell's scores and the first push.
AStarPushStart ==
    /\ pc = "init"
    /\ LET f == h_score(start, end)
       IN  /\ nodes' = [nodes EXCEPT ![start].g_score = 0, ![start].f_score = f]
           /\ heap_default' = push(heap_default, <<f, start>>)
    /\ pc' = "loop"
    /\ UNCHANGED <<windowVars, top, current_id, caller, result, runs, prev_result>>

\* Line 76, and line 107 when the heap is empty.
AStarLoopTest ==
    /\ pc = "loop"
    /\ IF ~empty(heap_default)
       THEN /\ pc' = "pop"
            /\ UNCHANGED <<nodes, top, current_id, result>>
       ELSE Finish(Returned(<<>>))
    /\ UNCHANGED <<windowVars, heap_default, caller, runs, prev_result>>

\* Line 84 without heap.empty(): the loop stops on an up to date entry only.
Breaks_on_match_only(hp, f, entry) == f = entry[1]

\* Line 84: the inner loop stops on an empty heap or an up to date entry.
Breaks(hp, f, entry) == empty(hp) \/ f = entry[1]

\* Lines 81-85: one round of the inner loop.
AStarPop ==
    /\ pc = "pop"
    /\ IF empty(heap_default)
       THEN /\ Finish(IndexError)
            /\ UNCHANGED heap_default
       ELSE LET r == pop(heap_default)
            IN  /\ top' = r[1]
                /\ current_id' = r[1][2]
                /\ heap_default' = r[2]
                /\ pc' = IF Breaks(r[2], nodes[r[1][2]].f_score, r[1])
                         THEN "expand" ELSE "pop"
                /\ UNCHANGED <<nodes, result>>
    /\ UNCHANGED <<windowVars, caller, runs, prev_result>>

\* pathfinding.construct_path's loop: path so far, from end backwards.
RECURSIVE Walk(_, _, _, _)
Walk(s, current, nd, path) ==
    IF current = s THEN Returned([i \in 1 .. Len(path) |-> path[Len(path) + 1 - i]])
    ELSE IF Len(path) > Cardinality(DOMAIN nd) THEN Diverges
    ELSE LET came_from == nd[current].came_from
         IN  IF came_from = None THEN AssertionError
             ELSE Walk(s, came_from, nd, Append(path, came_from))

\* construct_path without the start == end case.
construct_path_no_trivial(s, e, nd) == Walk(s, e, nd, <<e>>)

\* pathfinding.construct_path.  The loop test "current is not start" compares
\* int objects; CPython keeps one object per int up to 256, and cell ids here are
\* below that, so it is the comparison of the values.
construct_path(s, e, nd) ==
    IF s = e THEN Returned(<<>>) ELSE Walk(s, e, nd, <<e>>)

\* Relax without the line that records the predecessor.
Relax_no_came_from(nd, hp, cur, neighbour_id) ==
    IF nd[neighbour_id].visited THEN <<nd, hp>>
    ELSE LET new_g_score == GAdd(nd[cur].g_score, ADJACENT_COST)
         IN  IF GLess(new_g_score, nd[neighbour_id].g_score)
             THEN LET f == FAdd(new_g_score, h_score(neighbour_id, end))
                  IN  <<[nd EXCEPT ![neighbour_id].g_score = new_g_score,
                                   ![neighbour_id].f_score = f],
                        push(hp, <<f, neighbour_id>>)>>
             ELSE <<nd, hp>>

\* Relax without its two tests: every neighbour is rewritten and pushed.
Relax_every_neighbour(nd, hp, cur, neighbour_id) ==
    LET new_g_score == GAdd(nd[cur].g_score, ADJACENT_COST)
        f == FAdd(new_g_score, h_score(neighbour_id, end))
    IN  <<[nd EXCEPT ![neighbour_id].came_from = cur,
                     ![neighbour_id].g_score = new_g_score,
                     ![neighbour_id].f_score = f],
          push(hp, <<f, neighbour_id>>)>>

\* Relax with new_g_score taken as the step cost alone, the current cell's
\* g_score forgotten.
Relax_forgets_g_score(nd, hp, cur, neighbour_id) ==
    IF nd[neighbour_id].visited THEN <<nd, hp>>
    ELSE LET new_g_score == ADJACENT_COST
         IN  IF GLess(new_g_score, nd[neighbour_id].g_score)
             THEN LET f == FAdd(new_g_score, h_score(neighbour_id, end))
                  IN  <<[nd EXCEPT ![neighbour_id].came_from = cur,
                                   ![neighbour_id].g_score = new_g_score,
                                   ![neighbour_id].f_score = f],
                        push(hp, <<f, neighbour_id>>)>>
             ELSE <<nd, hp>>

\* Lines 94-104 for one neighbour: <<nodes, heap>> afterwards.
Relax(nd, hp, cur, neighbour_id) ==
    IF nd[neighbour_id].visited THEN <<nd, hp>>
    ELSE LET new_g_score == GAdd(nd[cur].g_score, ADJACENT_COST)
         IN  IF GLess(new_g_score, nd[neighbour_id].g_score)
             THEN LET f == FAdd(new_g_score, h_score(neighbour_id, end))
                  IN  <<[nd EXCEPT ![neighbour_id].came_from = cur,
                                   ![neighbour_id].g_score = new_g_score,
                                   ![neighbour_id].f_score = f],
                        push(hp, <<f, neighbour_id>>)>>
             ELSE <<nd, hp>>

\* The for loop of line 93 from the i-th neighbour on; st is <<nodes, heap>>.
RECURSIVE RelaxAll(_, _, _, _)
RelaxAll(ns, i, st, cur) ==
    IF i > Len(ns) THEN st
    ELSE RelaxAll(ns, i + 1, Relax(st[1], st[2], cur, ns[i]), cur)

\* Lines 92-104: the cell is marked visited and its neighbours are relaxed.
Expand(nd, hp, cur) ==
    RelaxAll(get_neighbours(cur), 1, <<[nd EXCEPT ![cur].visited = TRUE], hp>>, cur)

\* Lines 88-104: return the path at the end cell, else mark and expand.
AStarExpand ==
    /\ pc = "expand"
    /\ IF current_id = end
       THEN /\ Finish(construct_path(start, current_id, nodes))
            /\ UNCHANGED heap_default
       ELSE /\ nodes' = Expand(nodes, heap_default, current_id)[1]
            /\ heap_default' = Expand(nodes, heap_default, current_id)[2]
            /\ pc' = "loop"
            /\ UNCHANGED <<top, current_id, result>>
    /\ UNCHANGED <<windowVars, caller, runs, prev_result>>

AStarStep ==
    \/ AStarEntry
    \/ AStarPushStart
    \/ AStarLoopTest
    \/ AStarPop
    \/ AStarExpand

(***************************************************************************)
(* Window callbacks.  Tk runs one callback at a time, so no event is       *)
(* handled while a_star runs; a message box is modal, so none is handled   *)
(* until it is dismissed.                                                  *)
(***************************************************************************)
\* Window.draw_cell on the dict __cells.
draw_cell(cell_id, c) == DictSet(cells, cell_id, c)

\* Window.__change_cell_colour (a Place button; disabled buttons do not fire).
ChangeCellColour(c) ==
    /\ pc = "idle"
    /\ dialog = "none"
    /\ buttons = "normal"
    /\ c \in Colours
    /\ colour' = c
    /\ UNCHANGED <<width, height, cells, start, end, shortest_path, buttons, dialog,
                   heap_default, searchVars, pc, caller, result, runs, prev_result>>

\* __draw_callback without the test for a drawn path.
DrawCallback_ignores_path(x, y) ==
    /\ pc = "idle"
    /\ dialog = "none"
    /\ LET cell_id == abs_to_cell_id(<<x, y>>)
       IN  IF \/ cell_exists(cell_id)
              \/ out_of_bounds(abs_to_cell(<<x, y>>))
              \/ (end # None /\ colour = END)
              \/ (start # None /\ colour = START)
           THEN UNCHANGED <<cells, start, end, prev_result>>
           ELSE /\ cells' = draw_cell(cell_id, colour)
                /\ start' = IF colour = START THEN cell_id ELSE start
                /\ end' = IF colour = START THEN end
                          ELSE IF colour = END THEN cell_id ELSE end
                /\ prev_result' = NoResult
    /\ UNCHANGED <<width, height, colour, shortest_path, buttons, dialog,
                   heap_default, searchVars, pc, caller, result, runs>>

\* Window.__draw_callback for a click at pixel (x, y).
DrawCallback(x, y) ==
    /\ pc = "idle"
    /\ dialog = "none"
    /\ LET cell_id == abs_to_cell_id(<<x, y>>)
       IN  IF shortest_path # {}
           THEN UNCHANGED <<cells, start, end, prev_result>>
           ELSE IF \/ cell_exists(cell_id)
                   \/ out_of_bounds(abs_to_cell(<<x, y>>))
                   \/ (end # None /\ colour = END)
                   \/ (start # None /\ colour = START)
                THEN UNCHANGED <<cells, start, end, prev_result>>
                ELSE /\ cells' = draw_cell(cell_id, colour)
                     /\ start' = IF colour = START THEN cell_id ELSE start
                     /\ end' = IF colour = START THEN end
                               ELSE IF colour = END THEN cell_id ELSE end
                     /\ prev_result' = NoResult
    /\ UNCHANGED <<width, height, colour, shortest_path, buttons, dialog,
                   heap_default, searchVars, pc, caller, result, runs>>

\* __erase_callback without the note of a removed start or end.
EraseCallback_forgets_endpoints(x, y) ==
    /\ pc = "idle"
    /\ dialog = "none"
    /\ LET cell_id == abs_to_cell_id(<<x, y>>)
       IN  IF shortest_path # {}
           THEN UNCHANGED <<cells, start, end, prev_result>>
           ELSE IF ~cell_exists(cell_id) \/ out_of_bounds(abs_to_cell(<<x, y>>))
                THEN UNCHANGED <<cells, start, end, prev_result>>
                ELSE /\ cells' = DictDel(cells, cell_id)
                     /\ prev_result' = NoResult
                     /\ UNCHANGED <<start, end>>
    /\ UNCHANGED <<width, height, colour, shortest_path, buttons, dialog,
                   heap_default, searchVars, pc, caller, result, runs>>

\* Window.__erase_callback for a click at pixel (x, y).
EraseCallback(x, y) ==
    /\ pc = "idle"
    /\ dialog = "none"
    /\ LET cell_id == abs_to_cell_id(<<x, y>>)
       IN  IF shortest_path # {}
           THEN UNCHANGED <<cells, start, end, prev_result>>
           ELSE IF ~cell_exists(cell_id) \/ out_of_bounds(abs_to_cell(<<x, y>>))
                THEN UNCHANGED <<cells, start, end, prev_result>>
                ELSE /\ start' = IF cells[cell_id] = START THEN None ELSE start
                     /\ end' = IF cells[cell_id] = START THEN end
                               ELSE IF cells[cell_id] = END THEN None ELSE end
                     /\ cells' = DictDel(cells, cell_id)
                     /\ prev_result' = NoResult
    /\ UNCHANGED <<width, height, colour, shortest_path, buttons, dialog,
                   heap_default, searchVars, pc, caller, result, runs>>

\* __clear_canvas without the early return: the path and the grid go at once.
ClearCanvas_one_stage ==
    /\ pc = "idle"
    /\ dialog = "none"
    /\ shortest_path' = {}
    /\ buttons' = IF shortest_path # {} THEN "normal" ELSE buttons
    /\ cells' = EmptyDict
    /\ start' = None
    /\ end' = None
    /\ prev_result' = NoResult
    /\ UNCHANGED <<width, height, colour, dialog,
                   heap_default, searchVars, pc, caller, result, runs>>

\* Window.__clear_canvas (the Clear button, never disabled).
ClearCanvas ==
    /\ pc = "idle"
    /\ dialog = "none"
    /\ IF shortest_path # {}
       THEN /\ shortest_path' = {}
            /\ buttons' = "normal"
            /\ UNCHANGED <<cells, start, end, prev_result>>
       ELSE /\ cells' = EmptyDict
            /\ start' = None
            /\ end' = None
            /\ prev_result' = NoResult
            /\ UNCHANGED <<shortest_path, buttons>>
    /\ UNCHANGED <<width, height, colour, dialog,
                   heap_default, searchVars, pc, caller, result, runs>>

\* How many a_star invocations a behaviour may hold: MaxRuns on the 2x2 grid,
\* two on a grid of up to six cells, one on a larger grid.
RunLimit ==
    IF get_num_cells <= 4 THEN MaxRuns
    ELSE IF get_num_cells <= 6 THEN 2 ELSE 1

\* __find_shortest_path without the test for a missing start or end.
FindShortestPath_unchecked ==
    /\ pc = "idle"
    /\ dialog = "none"
    /\ buttons = "normal"
    /\ runs < RunLimit
    /\ pc' = "entry"
    /\ caller' = "ui"
    /\ runs' = runs + 1
    /\ UNCHANGED <<width, height, colour, cells, start, end, shortest_path, buttons,
                   dialog, heap_default, searchVars, result, prev_result>>

\* Window.__find_shortest_path up to the call of a_star (lines 262-267).
FindShortestPath ==
    /\ pc = "idle"
    /\ dialog = "none"
    /\ buttons = "normal"
    /\ IF start = None \/ end = None
       THEN /\ dialog' = "error"
            /\ UNCHANGED <<pc, caller, runs>>
       ELSE /\ runs < RunLimit
            /\ pc' = "entry"
            /\ caller' = "ui"
            /\ runs' = runs + 1
            /\ UNCHANGED dialog
    /\ UNCHANGED <<width, height, colour, cells, start, end, shortest_path, buttons,
                   heap_default, searchVars, result, prev_result>>

\* Window.__draw_shortest_path: the inner cells of the path, then the buttons.
draw_shortest_path(path) ==
    /\ shortest_path' = shortest_path \cup {path[i] : i \in 2 .. (Len(path) - 1)}
    /\ buttons' = "disabled"

\* Window.__find_shortest_path after a_star (lines 269-272).  An AssertionError
\* leaves the callback; Tk reports it and the main loop goes on.
FindShortestPathResume ==
    /\ pc \in {"returned", "raised"}
    /\ caller = "ui"
    /\ IF pc = "raised"
       THEN UNCHANGED <<shortest_path, buttons, dialog>>
       ELSE IF result.path = <<>>
            THEN /\ dialog' = "info"
                 /\ UNCHANGED <<shortest_path, buttons>>
            ELSE /\ draw_shortest_path(result.path)
                 /\ UNCHANGED dialog
    /\ pc' = "idle"
    /\ caller' = "none"
    /\ prev_result' = result
    /\ result' = NoResult
    /\ UNCHANGED <<width, height, colour, cells, start, end,
                   heap_default, searchVars, runs>>

\* messagebox.showerror / showinfo returns: the user dismissed the box.
DismissDialog ==
    /\ pc = "idle"
    /\ dialog # "none"
    /\ dialog' = "none"
    /\ UNCHANGED <<width, height, colour, cells, start, end, shortest_path, buttons,
                   heap_default, searchVars, pc, caller, result, runs, prev_result>>

(***************************************************************************)
(* The program: a Window of the given size, then events.                   *)
(***************************************************************************)
\* Pixel positions of clicks: one inside every column (row), one left of (above)
\* the grid and one right of (below) it.
ClickXs == {cx * cell_width + 1 : cx \in -1 .. (width \div cell_width)}
ClickYs == {cy * cell_height + 1 : cy \in -1 .. (height \div cell_height)}

\* Window.__init__ (and the module state of pathfinding: the default list is empty).
WindowInit(w, h) ==
    /\ width = w
    /\ height = h
    /\ colour = OBSTACLE
    /\ cells = EmptyDict
    /\ start = None
    /\ end = None
    /\ shortest_path = {}
    /\ buttons = "normal"
    /\ dialog = "none"
    /\ heap_default = <<>>
    /\ nodes = <<>>
    /\ top = NoTop
    /\ current_id = None
    /\ pc = "idle"
    /\ caller = "none"
    /\ result = NoResult
    /\ runs = 0
    /\ prev_result = NoResult

Init == WindowInit(2 * cell_width, 2 * cell_height)

Next ==
    \/ \E c \in {OBSTACLE, START, END} : ChangeCellColour(c)
    \/ \E x \in ClickXs, y \in ClickYs : DrawCallback(x, y)
    \/ \E x \in ClickXs, y \in ClickYs : EraseCallback(x, y)
    \/ ClearCanvas
    \/ FindShortestPath
    \/ FindShortestPathResume
    \/ DismissDialog
    \/ AStarStep

Spec == Init /\ [][Next]_vars

(***************************************************************************)
(* The search engine on its own: a_star applied to every grid, start and   *)
(* end of a few small windows, several times in one process.  The          *)
(* Start button invokes it; where the button refuses (start or end is      *)
(* None) a_star is also called directly.  Between invocations Clear blanks *)
(* the window and any other grid of the same size is laid out.             *)
(***************************************************************************)
\* Window sizes (pixels) of the engine specification: 2x2, 3x2, 2x3, 3x3 cells.
EngineSizes ==
    {<<2 * cell_width, 2 * cell_height>>, <<3 * cell_width, 2 * cell_height>>,
     <<2 * cell_width, 3 * cell_height>>, <<3 * cell_width, 3 * cell_height>>}

\* __cells for a start, an end (either may be None, or both the same cell) and
\* a set of obstacle cells.
LayoutCells(s, e, obstacles) ==
    [i \in obstacles \cup ({s, e} \ {None}) |->
        IF i = s THEN START ELSE IF i = e THEN END ELSE OBSTACLE]

\* The grid is replaced: any start, end and obstacles; no path drawn.
SetLayout(s, e, obstacles) ==
    /\ cells' = LayoutCells(s, e, obstacles)
    /\ start' = s
    /\ end' = e

EngineInit ==
    /\ \E size \in EngineSizes : WindowInit(size[1], size[2])

\* A blank window (after construction, or after Clear) gets a grid: any start,
\* end and obstacles, drawn by clicks.
NewLayout ==
    /\ pc = "idle"
    /\ dialog = "none"
    /\ runs < RunLimit
    /\ cells = EmptyDict
    /\ shortest_path = {}
    /\ \E s \in CellIds \cup {None}, e \in CellIds \cup {None} :
         \E obstacles \in SUBSET (CellIds \ {s, e}) :
            /\ obstacles \cup ({s, e} \ {None}) # {}
            /\ SetLayout(s, e, obstacles)
    /\ prev_result' = NoResult
    /\ UNCHANGED <<width, height, colour, shortest_path, buttons, dialog,
                   heap_default, searchVars, pc, caller, result, runs>>

\* pathfinding.a_star(window) called directly, where the button does not call it.
CallAStar ==
    /\ pc = "idle"
    /\ dialog = "none"
    /\ start = None \/ end = None
    /\ runs < RunLimit
    /\ pc' = "entry"
    /\ caller' = "direct"
    /\ runs' = runs + 1
    /\ UNCHANGED <<windowVars, heap_default, searchVars, result, prev_result>>

\* The direct call is over.
CallReturn ==
    /\ pc \in {"returned", "raised"}
    /\ caller = "direct"
    /\ pc' = "idle"
    /\ caller' = "none"
    /\ prev_result' = result
    /\ result' = NoResult
    /\ UNCHANGED <<windowVars, heap_default, searchVars, runs>>

NextEngine ==
    \/ NewLayout
    \/ FindShortestPath
    \/ FindShortestPathResume
    \/ DismissDialog
    \/ ClearCanvas
    \/ CallAStar
    \/ CallReturn
    \/ AStarStep

SpecEngine == EngineInit /\ [][NextEngine]_vars

(***************************************************************************)
(* The grid on its own: every grid of the engine's window sizes, edited by *)
(* clicks.  No search runs.                                                *)
(***************************************************************************)
NextGrid ==
    \/ NewLayout
    \/ \E x \in ClickXs, y \in ClickYs : DrawCallback(x, y)
    \/ \E x \in ClickXs, y \in ClickYs : EraseCallback(x, y)
    \/ ClearCanvas

SpecGrid == EngineInit /\ [][NextGrid]_vars

(***************************************************************************)
(* The coordinate helpers on windows of every pixel size from one cell up  *)
(* to MaxWidth x MaxHeight, widths and heights that are no multiple of the *)
(* cell size included: Window(width, height) takes any two ints.  Clicks   *)
(* draw and erase obstacles; no search runs.                               *)
(***************************************************************************)
CoordInit ==
    \E w \in cell_width .. MaxWidth, h \in cell_height .. MaxHeight : WindowInit(w, h)

NextCoord ==
    \/ \E x \in ClickXs, y \in ClickYs : DrawCallback(x, y)
    \/ \E x \in ClickXs, y \in ClickYs : EraseCallback(x, y)
    \/ ClearCanvas

SpecCoord == CoordInit /\ [][NextCoord]_vars

(***************************************************************************)
(* Reference notions the properties are stated with.  They are written     *)
(* from the grid's geometry, not from get_neighbours.                      *)
(***************************************************************************)
\* Column and row of a cell id in the row-major numbering.
ColOf(id) == id % Cols
RowOf(id) == id \div Cols

Abs(n) == IF n < 0 THEN 0 - n ELSE n

\* Manhattan distance of two cells.
Manhattan(a, b) == Abs(ColOf(a) - ColOf(b)) + Abs(RowOf(a) - RowOf(b))

\* Two cells of the grid one step apart (north, east, south or west).
Adjacent4(a, b) == a \in CellIds /\ b \in CellIds /\ Manhattan(a, b) = 1

\* The cell holds an obstacle.
IsObstacle(id) == id \in DOMAIN cells /\ cells[id] = OBSTACLE

\* Passable cells one step from a cell.
RefNeighbours(id) == {j \in CellIds : Adjacent4(id, j) /\ ~IsObstacle(j)}

\* Breadth-first search: the least number of steps from the frontier (at
\* distance d) to the target, or Inf when there is none.
RECURSIVE Bfs(_, _, _, _)
Bfs(frontier, seen, d, target) ==
    IF target \in frontier THEN d
    ELSE LET next == (UNION {RefNeighbours(c) : c \in frontier}) \ seen
         IN  IF next = {} THEN Inf ELSE Bfs(next, seen \cup next, d + 1, target)

MinSteps(s, e) == Bfs({s}, {s}, 0, e)

\* start and end are both set.
Defined == start # None /\ end # None

\* An a_star call has just ended (its result is not yet consumed).
Ended == pc \in {"returned", "raised"}

(***************************************************************************)
(* Properties.                                                             *)
(***************************************************************************)
\* C1: a non-empty path returned by a_star has as many edges as the least
\* number of 4-directional steps from start to end through non-obstacle cells.
C1_PathIsShortest ==
    (pc = "returned" /\ result.path # <<>>) =>
        Len(result.path) - 1 = MinSteps(start, end)

\* C1 witness: a returned path that takes a detour round obstacles, found by an
\* invocation that began with entries left in the heap.
C1_Witness ==
    /\ pc = "returned"
    /\ result.path # <<>>
    /\ Len(result.path) - 1 > Manhattan(start, end)
    /\ runs >= 2

\* C1 witness on the largest grid: a detour of four steps more than the
\* Manhattan distance.
C1_WitnessDetour ==
    /\ pc = "returned"
    /\ result.path # <<>>
    /\ Len(result.path) - 1 >= Manhattan(start, end) + 4

\* C2: a non-empty returned path starts at start, ends at end, steps between
\* 4-adjacent cells only and holds no obstacle.
C2_PathIsValid ==
    (pc = "returned" /\ result.path # <<>>) =>
        LET path == result.path
        IN  /\ path[1] = start
            /\ path[Len(path)] = end
            /\ \A i \in 1 .. (Len(path) - 1) : Adjacent4(path[i], path[i + 1])
            /\ \A i \in 1 .. Len(path) : path[i] \in CellIds /\ ~IsObstacle(path[i])

\* C2 witness: a returned path of at least four cells on a grid with obstacles.
C2_Witness ==
    /\ pc = "returned"
    /\ Len(result.path) >= 4
    /\ \E id \in CellIds : IsObstacle(id)

\* C3: when no passable route joins start and end, a_star returns the empty list
\* (it neither raises nor returns a path).
C3_NoRouteGivesEmpty ==
    (Ended /\ Defined /\ MinSteps(start, end) = Inf) => result = Returned(<<>>)

\* C4: a new invocation starts from nothing: right after Heap() the frontier is
\* empty (so the first push leaves the single entry of start) and every Node is
\* in the unknown state.
C4_FreshSearchState ==
    (pc = "init") =>
        /\ heap_default = <<>>
        /\ \A i \in DOMAIN nodes : nodes[i] = Node

\* C5: the check in construct_path never fails: whenever the end cell is popped
\* and the path is rebuilt, the came_from chain from end reaches start.
C5_ChainReachesStart ==
    (pc = "expand" /\ current_id = end) =>
        construct_path(start, current_id, nodes).kind = "returned"

\* C6: a_star called again on an unchanged grid, start and end gives what the
\* call before gave.
C6_Idempotent ==
    (Ended /\ Defined /\ prev_result # NoResult) => result = prev_result

\* C7: no search runs with start or end undefined: the button's callback shows
\* the error box instead of calling a_star and changes nothing of the grid, and
\* a_star entered with start or end None raises at once, creating no Node and
\* touching no heap entry.
C7_NoSearchWithoutEndpoints ==
    [][/\ (~Defined /\ pc = "idle") => ~(pc' = "entry" /\ caller' = "ui")
       /\ (~Defined /\ dialog' = "error" /\ dialog # "error") =>
              /\ pc = "idle" /\ pc' = "idle" /\ runs' = runs
              /\ UNCHANGED <<cells, start, end, shortest_path, heap_default, nodes>>
       /\ (dialog' = "error" /\ dialog # "error") => ~Defined
       /\ (~Defined /\ pc = "entry") =>
              /\ pc' = "raised" /\ result' = AssertionError
              /\ nodes' = <<>>
              /\ UNCHANGED <<heap_default, cells, start, end, shortest_path>>
      ]_vars

\* C7 witness: the error box is on screen, an endpoint is missing, and the heap
\* holds entries an earlier search left.
C7_Witness ==
    /\ dialog = "error" /\ ~Defined /\ pc = "idle" /\ heap_default # <<>>

\* C7, the direct call: a_star has raised with an endpoint missing while the heap
\* holds entries.
C7_WitnessDirect ==
    /\ pc = "raised" /\ caller = "direct" /\ ~Defined /\ heap_default # <<>>

\* C8: with start equal to end a_star returns the empty list.
C8_StartIsEndGivesEmpty ==
    (Ended /\ Defined /\ start = end) => result = Returned(<<>>)

\* C8 witness: such a call has ended, on a grid with obstacles, with entries of
\* an earlier invocation in the heap.
C8_Witness ==
    /\ Ended /\ Defined /\ start = end
    /\ heap_default # <<>>
    /\ \E id \in CellIds : IsObstacle(id)

\* C9: every invocation runs to completion and returns a path or the empty
\* list: whatever the heap held when it started, a call that has ended has
\* ended by returning.
C9_RunsToReturn ==
    (pc \notin {"idle", "entry", "init", "loop", "pop", "expand"} /\ Defined) =>
        (pc = "returned" /\ result.kind = "returned")

\* C10: for every cell, get_neighbours gives exactly the passable cells one step
\* north, east, south or west, each once, all of them ids of the grid.
C10_NeighboursExact ==
    \A id \in CellIds :
        LET ns == get_neighbours(id)
        IN  /\ {ns[i] : i \in 1 .. Len(ns)} = RefNeighbours(id)
            /\ Len(ns) = Cardinality(RefNeighbours(id))
            /\ \A i \in 1 .. Len(ns) : ns[i] >= 0 /\ ns[i] < get_num_cells

\* C10 witness: a cell with four passable neighbours, the start among them, and
\* a cell next to an obstacle.
C10_Witness ==
    /\ \E id \in CellIds :
          /\ Len(get_neighbours(id)) = 4
          /\ \E i \in 1 .. 4 : get_neighbours(id)[i] = start
    /\ \E id \in CellIds, j \in CellIds : Adjacent4(id, j) /\ IsObstacle(j)

\* The cell coordinates the window holds: those out_of_bounds lets through.
InBounds ==
    {c \in (-1 .. Cols) \X (-1 .. Rows) : ~out_of_bounds(c)}

\* C11: for every window size and every in-bounds coordinate, the cell id
\* converts back to the coordinate; so cell_to_cell_id is injective on in-bounds
\* coordinates and maps them into [0, get_num_cells()).
C11_RoundTrip ==
    /\ \A c \in InBounds : cell_id_to_cell(cell_to_cell_id(c)) = c
    /\ \A c \in InBounds, d \in InBounds :
          cell_to_cell_id(c) = cell_to_cell_id(d) => c = d
    /\ \A c \in InBounds :
          cell_to_cell_id(c) >= 0 /\ cell_to_cell_id(c) < get_num_cells

\* C12: while the non-clear buttons are disabled and Clear has not been pressed
\* since the path was drawn (start and end are then both still set), no draw
\* or erase click changes cells, start or end: every step but Clear leaves them.
C12_NoEditWhileDisabled ==
    [][(buttons = "disabled" /\ Defined /\ ~ClearCanvas) =>
           UNCHANGED <<cells, start, end>>]_vars

\* C13: pressing Clear once while the non-clear buttons are disabled leaves them
\* enabled.
C13_ClearEnablesButtons ==
    [][(buttons = "disabled" /\ ClearCanvas) => buttons' = "normal"]_vars

\* C14: while a shortest path is drawn, a draw click and an erase click, at any
\* position and with any selected colour, leave cells, start, end and the drawn
\* path unchanged.
C14_ClicksIgnoredWhilePathDrawn ==
    [][(/\ shortest_path # {}
        /\ \E x \in ClickXs, y \in ClickYs : DrawCallback(x, y) \/ EraseCallback(x, y)) =>
           UNCHANGED <<cells, start, end, shortest_path>>]_vars

\* C14 witness: a path is drawn, the obstacle colour is selected and a cell of
\* the grid is free, so a click on it would draw were no path on screen; and a
\* cell is drawn, so a right click on it would erase.
C14_Witness ==
    /\ pc = "idle" /\ dialog = "none"
    /\ shortest_path # {}
    /\ colour = OBSTACLE
    /\ \E id \in CellIds : ~cell_exists(id)
    /\ \E id \in CellIds : cell_exists(id)

\* C15: Clear with a path drawn removes the path only and leaves cells, start
\* and end; Clear with no path drawn empties cells and sets start and end to
\* None.
C15_ClearTwoStages ==
    [][ClearCanvas =>
           IF shortest_path # {}
           THEN shortest_path' = {} /\ UNCHANGED <<cells, start, end>>
           ELSE cells' = EmptyDict /\ start' = None /\ end' = None
                /\ shortest_path' = {}]_vars

\* C15 witness, first stage: the last search drew a path of inner cells, the
\* path is gone again (only Clear removes it) and the grid is still there.
C15_Witness ==
    /\ pc = "idle"
    /\ Len(prev_result.path) >= 3
    /\ shortest_path = {}
    /\ Defined /\ cell_exists(start) /\ cell_exists(end)

\* C15 witness, second stage: after a search and the first Clear, a second
\* Clear has emptied the grid.
C15_WitnessSecondStage ==
    /\ pc = "idle" /\ runs >= 1
    /\ cells = EmptyDict /\ start = None /\ end = None
    /\ shortest_path = {} /\ buttons = "normal"
    /\ heap_default # <<>>

\* C16: the entry a_star goes on to process after the inner pop loop (tested
\* against end, marked visited, expanded) has the priority that is the cell's
\* current f_score: no stale entry is processed.
C16_NoStaleEntryProcessed ==
    (pc = "expand") => top[1] = nodes[current_id].f_score

\* C17: during an invocation every cell marked visited has the g_score that is
\* the least number of steps from start to it through non-obstacle cells
\* (math.inf where there is no such route).
C17_VisitedHasLeastCost ==
    \A i \in DOMAIN nodes :
        nodes[i].visited => nodes[i].g_score = MinSteps(start, i)

\* C17 witness: a search that has marked visited a cell three steps from start,
\* in an invocation that began with entries left in the heap.
C17_Witness ==
    /\ pc = "loop" /\ runs >= 2
    /\ \E i \in DOMAIN nodes : nodes[i].visited /\ nodes[i].g_score >= 3

\* C17, the stale entry: a cell has been marked visited that the search never
\* reached (its g_score is math.inf).
C17_WitnessStale ==
    /\ pc = "loop"
    /\ \E i \in DOMAIN nodes : nodes[i].visited /\ nodes[i].g_score = Inf

\* C18: during an invocation, came_from of a cell is defined exactly when its
\* g_score is finite and it is not the start cell.
C18_CameFromIffReached ==
    \A i \in DOMAIN nodes :
        (nodes[i].came_from # None) <=> (nodes[i].g_score # Inf /\ i # start)

\* C18 witness: an invocation begun with leftover heap entries has reached at
\* least three cells besides start, and start has neighbours that were relaxed.
C18_Witness ==
    /\ pc = "loop" /\ runs >= 2
    /\ nodes[start].came_from = None /\ nodes[start].g_score = 0
    /\ Cardinality({i \in DOMAIN nodes : nodes[i].came_from # None}) >= 3

\* The number of entries of a cell in the heap.
EntriesOf(h, id) == Cardinality({k \in 1 .. Len(h) : h[k][2] = id})

\* C19: within an invocation, a step leaves the Node of every visited cell as it
\* is and adds no heap entry for it, and raises no cell's g_score.
C19_VisitedIsFrozen ==
    [][(pc \in {"init", "loop", "pop", "expand"} /\ pc' \in {"loop", "pop", "expand"}) =>
           \A i \in DOMAIN nodes :
               /\ nodes[i].visited =>
                      /\ nodes'[i] = nodes[i]
                      /\ EntriesOf(heap_default', i) <= EntriesOf(heap_default, i)
               /\ ~GLess(nodes[i].g_score, nodes'[i].g_score)]_vars

\* C19 witness: a cell with a visited neighbour is about to be expanded, in an
\* invocation begun with leftover heap entries.
C19_Witness ==
    /\ pc = "expand" /\ current_id # end /\ runs >= 2
    /\ \E k \in 1 .. Len(get_neighbours(current_id)) :
          /\ nodes[get_neighbours(current_id)[k]].visited
          /\ get_neighbours(current_id)[k] # start

\* C20: every pop takes out of the frontier an entry that no entry of the
\* frontier precedes in the order by f_score, then by cell id; the other
\* entries stay.
C20_PopGivesLeast ==
    [][(pc = "pop" /\ heap_default # <<>>) =>
           /\ \E k \in 1 .. Len(heap_default) : heap_default[k] = top'
           /\ \A k \in 1 .. Len(heap_default) :
                  \/ FLess(top'[1], heap_default[k][1])
                  \/ (top'[1] = heap_default[k][1] /\ top'[2] <= heap_default[k][2])
           /\ Len(heap_default') = Len(heap_default) - 1
           /\ \A id \in CellIds :
                  EntriesOf(heap_default', id) =
                      EntriesOf(heap_default, id) - (IF id = top'[2] THEN 1 ELSE 0)]_vars

\* C20 witness: an entry has been popped while another entry of the same
\* f_score and a higher cell id stayed in the frontier.
C20_Witness ==
    /\ pc \in {"pop", "expand"} /\ top # NoTop
    /\ \E k \in 1 .. Len(heap_default) :
          heap_default[k][1] = top[1] /\ heap_default[k][2] > top[2]

\* The cells of a colour.
CellsOf(c) == {i \in DOMAIN cells : cells[i] = c}

\* C21: after any events, start is set exactly when the one START cell of the
\* grid is the cell start, likewise end and END; so start and end differ,
\* neither is an obstacle, and every key of cells is a cell id of the grid.
C21_EndpointsMatchCells ==
    /\ CellsOf(START) = (IF start = None THEN {} ELSE {start})
    /\ CellsOf(END) = (IF end = None THEN {} ELSE {end})
    /\ Cardinality(CellsOf(START)) <= 1
    /\ Cardinality(CellsOf(END)) <= 1
    /\ Defined => start # end
    /\ start # None => ~obstacle_exists(start)
    /\ end # None => ~obstacle_exists(end)
    /\ \A id \in DOMAIN cells : id >= 0 /\ id < get_num_cells

\* C21 witness: after a search and further edits the grid holds a start, an
\* end and an obstacle, and the start is a cell the heap left by the last
\* search does not name.
C21_Witness ==
    /\ pc = "idle" /\ runs >= 1
    /\ Defined
    /\ CellsOf(OBSTACLE) # {}
    /\ heap_default # <<>>
    /\ \A k \in 1 .. Len(heap_default) : heap_default[k][2] # start

\* C22: heap.pop() is never called on an empty frontier: whenever the inner
\* loop is about to pop, the heap holds an entry, and no call ends by the
\* IndexError of a pop from an empty list.
C22_NeverPopsEmpty ==
    /\ pc = "pop" => ~empty(heap_default)
    /\ result.kind # "IndexError"

\* C22 witness: the inner loop has just discarded a stale entry and is about to
\* pop again.
C22_Witness ==
    /\ pc = "pop" /\ top # NoTop
    /\ top[1] # nodes[top[2]].f_score
    /\ ~empty(heap_default)

====
